---- MODULE Spec2Model ----
(***************************************************************************)
(* Model of finch/run_continuous.py: the optimizer thread running          *)
(* run_continuous_finch (one action per statement group, named after the   *)
(* line it starts at) and the rendering thread, which shares the State     *)
(* object with it and sets the three control flags.                        *)
(*                                                                         *)
(* Time is counted in microseconds.  The clock itself is not a variable:   *)
(* the model keeps the differences the code computes from it               *)
(* (time.time() - image_start_time, time.time() - wait_start,              *)
(* time.time() - frame_start_time, datetime.now() - last_update_time).     *)
(* Time passes inside iterate_image, inside the two time.sleep calls and   *)
(* nowhere else.                                                           *)
(***************************************************************************)
EXTENDS Integers, FiniteSets

VARIABLES
    pc,                             \* position of the optimizer thread
    thread,                         \* the rendering thread: "running" / "exited"
    image_folder,                   \* the files listdir(image_folder) returns
    img_path, brush, target_image,  \* State fields written by the optimizer
    specimen, score, image_available, update_time_microseconds,
    flag_stop, flag_next_image, lock_image,   \* State fields written by the renderer
    n_iterations_with_same_score,   \* locals of run_continuous_finch
    fitness, generation_index, new_specimen, new_score,
    sel_img_path,                   \* local img_path of _get_random_image_path
    elapsed,                        \* time.time() - image_start_time
    frame_time,                     \* time.time() - frame_start_time
    waited,                         \* time.time() - wait_start
    since_update_s, since_update_us \* datetime.now() - last_update_time

vars == <<pc, thread, image_folder, img_path, brush, target_image, specimen, score,
          image_available, update_time_microseconds, flag_stop, flag_next_image,
          lock_image, n_iterations_with_same_score, fitness, generation_index,
          new_specimen, new_score, sel_img_path, elapsed, frame_time, waited,
          since_update_s, since_update_us>>

shared_vars == <<img_path, brush, target_image, specimen, score, image_available,
                 update_time_microseconds>>
flag_vars == <<flag_stop, flag_next_image, lock_image>>
time_vars == <<elapsed, frame_time, waited, since_update_s, since_update_us>>
local_vars == <<n_iterations_with_same_score, fitness, generation_index,
                new_specimen, new_score, sel_img_path>>

----------------------------------------------------------------------------
(* Program constants *)

MICROS == 1000000
MAXIMUM_TIME_PER_IMAGE_SECONDS == 600
MINIMUM_STEP_TIME_MICROSECONDS == 100
WAIT_BETWEEN_IMAGES_SECONDS == 60
POLL_SECONDS == 1
SENTINEL_SCORE == 9999999

(* Bounds of the model *)

NSpecimens == 3          \* distinct drawings iterate_image can return
MaxGen == 3              \* iterations modelled per image session
MaxWaitSeconds == 61     \* seconds modelled in one inter-image wait
MaxDeltaSeconds == 2     \* whole seconds since last_update_time, counted up to here

Files == {"A", "B", "C"}
Folders == {{}, {"A"}, {"A", "B"}, {"A", "B", "C"}}
\* the brush_sets argument of run_continuous_finch
BrushSets == {"Oil"}
EmptyImage == ""
NoScore == -1

SpecimenIds == 0 .. (NSpecimens - 1)
Placeholder == [id |-> 0, is_placeholder |-> TRUE]

\* Durations of one call of iterate_image: shorter than the minimum step,
\* and half the per-image budget.
IterDurations == {MINIMUM_STEP_TIME_MICROSECONDS \div 2,
                  (MAXIMUM_TIME_PER_IMAGE_SECONDS \div 2) * MICROS}

Min(a, b) == IF a < b THEN a ELSE b

----------------------------------------------------------------------------
(* External collaborators *)

ImageIndex(t) == IF t = "A" THEN 0 ELSE IF t = "B" THEN 1 ELSE 2

\* get_fitness / the score iterate_image reports: the distance of a drawing
\* from a target image, lower is better.  Distinct drawings can tie, and the
\* same drawing scores differently against different targets.
Fit(id, t) == 1 + ((id + ImageIndex(t)) % 2)

\* get_initial_specimen(target_image): a blank drawing
InitialSpecimen == [id |-> 0, is_placeholder |-> FALSE]

----------------------------------------------------------------------------
Init ==
    /\ pc = "L53"
    /\ thread = "running"
    /\ image_folder \in Folders
    /\ img_path = ""
    /\ brush = "Canvas"
    /\ target_image = EmptyImage
    /\ specimen = Placeholder
    /\ score \in {0, SENTINEL_SCORE}   \* the default of State.score is not set in this file
    /\ image_available = FALSE
    /\ update_time_microseconds = 0
    /\ flag_stop = FALSE
    /\ flag_next_image = FALSE
    /\ lock_image = FALSE
    /\ n_iterations_with_same_score = 0
    /\ fitness = NoScore
    /\ generation_index = 0
    /\ new_specimen = Placeholder
    /\ new_score = NoScore
    /\ sel_img_path = ""
    /\ elapsed = 0
    /\ frame_time = 0
    /\ waited = 0
    /\ since_update_s = 0
    /\ since_update_us = 0

----------------------------------------------------------------------------
(* Conditions and updates of the code, one definition each *)

\* Variant of OuterLoopCondition: a skip request ends the outer loop as well
OuterLoopCondition_AlsoNextImage == ~flag_stop /\ ~flag_next_image

\* line 53: while not shared_state.flag_stop
OuterLoopCondition == ~flag_stop

\* Variant of ImageLoopCondition: the time budget is enforced also when locked
ImageLoopCondition_BudgetWhenLocked ==
    /\ ~flag_stop
    /\ ~flag_next_image
    /\ elapsed < MAXIMUM_TIME_PER_IMAGE_SECONDS * MICROS

\* Variant of ImageLoopCondition: a skip request is not looked at
ImageLoopCondition_NextImageIgnored ==
    /\ ~flag_stop
    /\ (lock_image \/ elapsed < MAXIMUM_TIME_PER_IMAGE_SECONDS * MICROS)

\* Variant of ImageLoopCondition: the time budget is not looked at
ImageLoopCondition_NoBudget ==
    /\ ~flag_stop
    /\ ~flag_next_image

\* lines 59-63: the condition of the per-image loop
ImageLoopCondition ==
    /\ ~flag_stop
    /\ ~flag_next_image
    /\ (lock_image \/ elapsed < MAXIMUM_TIME_PER_IMAGE_SECONDS * MICROS)

\* Variant of Rejected: > for >=, so that a tie is accepted
Rejected_TieAccepted(candidate_score, current_score) == candidate_score > current_score

\* Variant of Rejected: = for >=, so that a worse candidate is accepted
Rejected_OnlyTies(candidate_score, current_score) == candidate_score = current_score

\* lines 77, 79: the candidate is rejected when new_score >= shared_state.score
Rejected(candidate_score, current_score) == candidate_score >= current_score

\* Variant of CountRejection: the increment is lost
CountRejection_Lost(n) == n

\* line 78
CountRejection(n) == n + 1

\* line 80
CountAcceptance(n) == 0

\* line 82: the score published on acceptance
AcceptedScore(candidate_score, current_score) == candidate_score

\* Variant of AcceptedSpecimen: the score is published without its specimen
AcceptedSpecimen_Kept(candidate, current) == current

\* line 83: the specimen published on acceptance
AcceptedSpecimen(candidate, current) == candidate

\* Variant of SpecimenForImage: the placeholder is kept
SpecimenForImage_PlaceholderKept(current) == current

\* lines 130-132: a placeholder specimen is replaced by a blank drawing for the
\* new target, any other specimen is kept
SpecimenForImage(current) ==
    IF current.is_placeholder THEN InitialSpecimen ELSE current

\* Variant of AvailableOnAcceptance: the flag is left as it is
AvailableOnAcceptance_NotSet == image_available

\* line 84: shared_state.image_available = True
AvailableOnAcceptance == TRUE

\* Variant of ClearedNextImage: the flag is raised instead of cleared
ClearedNextImage_Raised == TRUE

\* line 104: shared_state.flag_next_image = False
ClearedNextImage == FALSE

\* line 133: the score an image session starts with
ResetScore == SENTINEL_SCORE

\* line 96: the image is left when it is not locked and the drawing is finished
ConvergenceBreak(finished) == ~lock_image /\ finished

\* Variant of SelectorRetries: the loop runs only while no path is held, the
\* previous path is not compared
SelectorRetries_Never(candidate, previous) == candidate = ""

\* Variant of SelectorRetries: the loop body never runs
SelectorRetries_Skipped(candidate, previous) == FALSE

\* line 145: while img_path == previous
SelectorRetries(candidate, previous) == candidate = previous

\* Variant of WaitLoopCondition: flag_stop is not looked at
WaitLoopCondition_StopIgnored ==
    \/ lock_image
    \/ /\ waited < WAIT_BETWEEN_IMAGES_SECONDS * MICROS
       /\ ~flag_next_image

\* lines 165-169: the condition of the wait loop
WaitLoopCondition ==
    \/ lock_image
    \/ /\ waited < WAIT_BETWEEN_IMAGES_SECONDS * MICROS
       /\ ~flag_stop
       /\ ~flag_next_image

\* lines 86-87: (current_update_time - last_update_time).microseconds, the
\* microseconds field of a timedelta, which holds the part below one second
MicrosecondsField(seconds, micros) == micros

\* datetime.now() - last_update_time after d more microseconds have passed,
\* as <<whole seconds (counted up to MaxDeltaSeconds), microseconds>>
DeltaAfter(d) ==
    LET total == since_update_us + d
    IN  <<Min(MaxDeltaSeconds, since_update_s + (total \div MICROS)), total % MICROS>>

----------------------------------------------------------------------------
(* The optimizer thread: run_continuous_finch *)

\* line 53: the outer loop condition
L53 ==
    /\ pc = "L53"
    /\ pc' = IF OuterLoopCondition THEN "L144" ELSE "L106"
    /\ UNCHANGED <<thread, image_folder, shared_vars, flag_vars, local_vars, time_vars>>

\* lines 143-144 of _get_random_image_path, called from line 123 with
\* previous = shared_state.img_path
L144 ==
    /\ pc = "L144"
    /\ sel_img_path' = img_path
    /\ pc' = "L145"
    /\ UNCHANGED <<thread, image_folder, shared_vars, flag_vars, time_vars,
                   n_iterations_with_same_score, fitness, generation_index,
                   new_specimen, new_score>>

\* line 145: the retry loop's condition; on exit, line 147 returns and
\* line 123 stores the path
L145 ==
    /\ pc = "L145"
    /\ IF SelectorRetries(sel_img_path, img_path)
       THEN /\ pc' = "L146"
            /\ UNCHANGED img_path
       ELSE /\ pc' = "L124"
            /\ img_path' = sel_img_path
    /\ UNCHANGED <<thread, image_folder, brush, target_image, specimen, score,
                   image_available, update_time_microseconds, flag_vars, local_vars,
                   time_vars>>

\* line 146: random.choice(img_paths), which raises IndexError on an empty list
L146 ==
    /\ pc = "L146"
    /\ IF image_folder = {}
       THEN /\ pc' = "IndexError"
            /\ UNCHANGED sel_img_path
       ELSE /\ \E f \in image_folder : sel_img_path' = f
            /\ pc' = "L145"
    /\ UNCHANGED <<thread, image_folder, shared_vars, flag_vars, time_vars,
                   n_iterations_with_same_score, fitness, generation_index,
                   new_specimen, new_score>>

\* lines 124-125: the brush set of the image
L124 ==
    /\ pc = "L124"
    /\ \E b \in BrushSets : brush' = b
    /\ pc' = "L128"
    /\ UNCHANGED <<thread, image_folder, img_path, target_image, specimen, score,
                   image_available, update_time_microseconds, flag_vars, local_vars,
                   time_vars>>

\* lines 127-129: _prep_image loads the file; the image is named by its path
L128 ==
    /\ pc = "L128"
    /\ target_image' = img_path
    /\ pc' = "L130"
    /\ UNCHANGED <<thread, image_folder, img_path, brush, specimen, score,
                   image_available, update_time_microseconds, flag_vars, local_vars,
                   time_vars>>

\* lines 130-132: a placeholder specimen is replaced by a blank drawing
L130 ==
    /\ pc = "L130"
    /\ specimen' = SpecimenForImage(specimen)
    /\ pc' = "L133"
    /\ UNCHANGED <<thread, image_folder, img_path, brush, target_image, score,
                   image_available, update_time_microseconds, flag_vars, local_vars,
                   time_vars>>

\* line 133: the score is reset
L133 ==
    /\ pc = "L133"
    /\ score' = ResetScore
    /\ pc' = "L135"
    /\ UNCHANGED <<thread, image_folder, img_path, brush, target_image, specimen,
                   image_available, update_time_microseconds, flag_vars, local_vars,
                   time_vars>>

\* Variant of L135: the stagnation counter is reset for the new image
L135_CounterReset ==
    /\ pc = "L135"
    /\ fitness' = Fit(specimen.id, target_image)
    /\ generation_index' = 0
    /\ n_iterations_with_same_score' = 0
    /\ elapsed' = 0
    /\ pc' = "L59"
    /\ UNCHANGED <<thread, image_folder, shared_vars, flag_vars,
                   new_specimen, new_score, sel_img_path,
                   frame_time, waited, since_update_s, since_update_us>>

\* lines 135-139 and 54-57: get_fitness of the specimen against the new
\* target, generation_index = 0, image_start_time = time.time()
L135 ==
    /\ pc = "L135"
    /\ fitness' = Fit(specimen.id, target_image)
    /\ generation_index' = 0
    /\ elapsed' = 0
    /\ pc' = "L59"
    /\ UNCHANGED <<thread, image_folder, shared_vars, flag_vars,
                   n_iterations_with_same_score, new_specimen, new_score, sel_img_path,
                   frame_time, waited, since_update_s, since_update_us>>

\* lines 59-63: the per-image loop condition
L59 ==
    /\ pc = "L59"
    /\ IF ImageLoopCondition
       THEN /\ pc' = "L64"
            /\ UNCHANGED elapsed
       ELSE /\ pc' = "L163"
            /\ elapsed' = 0
    /\ UNCHANGED <<thread, image_folder, shared_vars, flag_vars, local_vars,
                   frame_time, waited, since_update_s, since_update_us>>

\* lines 64-74: frame_start_time, generation_index, and the call of
\* iterate_image, which takes d microseconds and returns a drawing with its
\* fitness and score against target_image
L64 ==
    /\ pc = "L64"
    /\ generation_index < MaxGen
    /\ generation_index' = generation_index + 1
    /\ \E id \in SpecimenIds, d \in IterDurations :
          /\ new_specimen' = [id |-> id, is_placeholder |-> specimen.is_placeholder]
          /\ new_score' = Fit(id, target_image)
          /\ frame_time' = d
          /\ elapsed' = elapsed + d
          /\ since_update_s' = DeltaAfter(d)[1]
          /\ since_update_us' = DeltaAfter(d)[2]
    /\ pc' = "L77"
    /\ UNCHANGED <<thread, image_folder, shared_vars, flag_vars,
                   n_iterations_with_same_score, fitness, sel_img_path, waited>>

\* lines 77-81: the acceptance test, the stagnation counter and the local
\* fitness
L77 ==
    /\ pc = "L77"
    /\ IF Rejected(new_score, score)
       THEN /\ n_iterations_with_same_score' = CountRejection(n_iterations_with_same_score)
            /\ UNCHANGED fitness
            /\ pc' = "L86"
       ELSE /\ n_iterations_with_same_score' = CountAcceptance(n_iterations_with_same_score)
            /\ fitness' = new_score
            /\ pc' = "L82"
    /\ UNCHANGED <<thread, image_folder, shared_vars, flag_vars, generation_index,
                   new_specimen, new_score, sel_img_path, time_vars>>

\* line 82
L82 ==
    /\ pc = "L82"
    /\ score' = AcceptedScore(new_score, score)
    /\ pc' = "L83"
    /\ UNCHANGED <<thread, image_folder, img_path, brush, target_image, specimen,
                   image_available, update_time_microseconds, flag_vars, local_vars,
                   time_vars>>

\* line 83
L83 ==
    /\ pc = "L83"
    /\ specimen' = AcceptedSpecimen(new_specimen, specimen)
    /\ pc' = "L84"
    /\ UNCHANGED <<thread, image_folder, img_path, brush, target_image, score,
                   image_available, update_time_microseconds, flag_vars, local_vars,
                   time_vars>>

\* line 84
L84 ==
    /\ pc = "L84"
    /\ image_available' = AvailableOnAcceptance
    /\ pc' = "L86"
    /\ UNCHANGED <<thread, image_folder, img_path, brush, target_image, specimen, score,
                   update_time_microseconds, flag_vars, local_vars, time_vars>>

\* lines 86-94: the latency diagnostic; last_update_time = current_update_time
L86 ==
    /\ pc = "L86"
    /\ update_time_microseconds' = MicrosecondsField(since_update_s, since_update_us)
    /\ since_update_s' = 0
    /\ since_update_us' = 0
    /\ pc' = "L96"
    /\ UNCHANGED <<thread, image_folder, img_path, brush, target_image, specimen, score,
                   image_available, flag_vars, local_vars, elapsed, frame_time, waited>>

\* lines 96-97: is_drawing_finished(n_iterations_with_same_score, score) is
\* the collaborator's answer
L96 ==
    /\ pc = "L96"
    /\ \E finished \in BOOLEAN :
          IF ConvergenceBreak(finished)
          THEN /\ pc' = "L163"
               /\ elapsed' = 0
               /\ frame_time' = 0
          ELSE /\ pc' = "L99"
               /\ UNCHANGED <<elapsed, frame_time>>
    /\ UNCHANGED <<thread, image_folder, shared_vars, flag_vars, local_vars, waited,
                   since_update_s, since_update_us>>

\* lines 99-101: frame pacing
L99 ==
    /\ pc = "L99"
    /\ LET d == IF frame_time < MINIMUM_STEP_TIME_MICROSECONDS
                THEN MINIMUM_STEP_TIME_MICROSECONDS - frame_time
                ELSE 0
       IN  /\ elapsed' = elapsed + d
           /\ since_update_s' = DeltaAfter(d)[1]
           /\ since_update_us' = DeltaAfter(d)[2]
    /\ frame_time' = 0
    /\ pc' = "L59"
    /\ UNCHANGED <<thread, image_folder, shared_vars, flag_vars, local_vars, waited>>

\* lines 103, 163-164: _wait_for_next_image is entered, wait_start = time.time()
L163 ==
    /\ pc = "L163"
    /\ waited' = 0
    /\ pc' = "L165"
    /\ UNCHANGED <<thread, image_folder, shared_vars, flag_vars, local_vars, elapsed,
                   frame_time, since_update_s, since_update_us>>

\* lines 165-169: the wait loop condition
L165 ==
    /\ pc = "L165"
    /\ IF WaitLoopCondition
       THEN /\ pc' = "L170"
            /\ UNCHANGED waited
       ELSE /\ pc' = "L104"
            /\ waited' = 0
    /\ UNCHANGED <<thread, image_folder, shared_vars, flag_vars, local_vars, elapsed,
                   frame_time, since_update_s, since_update_us>>

\* line 170: time.sleep(1)
L170 ==
    /\ pc = "L170"
    /\ waited < MaxWaitSeconds * MICROS
    /\ waited' = waited + POLL_SECONDS * MICROS
    /\ since_update_s' = DeltaAfter(POLL_SECONDS * MICROS)[1]
    /\ since_update_us' = DeltaAfter(POLL_SECONDS * MICROS)[2]
    /\ pc' = "L165"
    /\ UNCHANGED <<thread, image_folder, shared_vars, flag_vars, local_vars, elapsed,
                   frame_time>>

\* line 104
L104 ==
    /\ pc = "L104"
    /\ flag_next_image' = ClearedNextImage
    /\ pc' = "L53"
    /\ UNCHANGED <<thread, image_folder, shared_vars, flag_stop, lock_image, local_vars,
                   time_vars>>

\* line 106: thread.join() returns once the rendering thread has ended
L106 ==
    /\ pc = "L106"
    /\ thread = "exited"
    /\ pc' = "done"
    /\ UNCHANGED <<thread, image_folder, shared_vars, flag_vars, local_vars, time_vars>>

----------------------------------------------------------------------------
(* The rendering thread: it reads the State object and sets the flags *)

RenderSetStop ==
    /\ thread = "running"
    /\ ~flag_stop
    /\ flag_stop' = TRUE
    /\ UNCHANGED <<pc, thread, image_folder, shared_vars, flag_next_image, lock_image,
                   local_vars, time_vars>>

RenderSetNextImage ==
    /\ thread = "running"
    /\ ~flag_next_image
    /\ flag_next_image' = TRUE
    /\ UNCHANGED <<pc, thread, image_folder, shared_vars, flag_stop, lock_image,
                   local_vars, time_vars>>

RenderToggleLock ==
    /\ thread = "running"
    /\ lock_image' = ~lock_image
    /\ UNCHANGED <<pc, thread, image_folder, shared_vars, flag_stop, flag_next_image,
                   local_vars, time_vars>>

RenderExit ==
    /\ thread = "running"
    /\ flag_stop
    /\ thread' = "exited"
    /\ UNCHANGED <<pc, image_folder, shared_vars, flag_vars, local_vars, time_vars>>

----------------------------------------------------------------------------
Optimizer ==
    \/ L53 \/ L144 \/ L145 \/ L146 \/ L124 \/ L128 \/ L130 \/ L133 \/ L135
    \/ L59 \/ L64 \/ L77 \/ L82 \/ L83 \/ L84 \/ L86 \/ L96 \/ L99
    \/ L163 \/ L165 \/ L170 \/ L104 \/ L106

Renderer == RenderSetStop \/ RenderSetNextImage \/ RenderToggleLock \/ RenderExit

Next == Optimizer \/ Renderer

Spec == Init /\ [][Next]_vars

----------------------------------------------------------------------------
(* Properties *)

\* The positions inside the per-image loop (lines 59-101)
ImageLoopPCs == {"L59", "L64", "L77", "L82", "L83", "L84", "L86", "L96", "L99"}

\* One image session: from after the score reset of line 133 until the
\* per-image loop is left
SessionPCs == {"L135"} \cup ImageLoopPCs

BudgetMicros == MAXIMUM_TIME_PER_IMAGE_SECONDS * MICROS
DelayMicros == WAIT_BETWEEN_IMAGES_SECONDS * MICROS

\* C1: No-regression acceptance.  At the acceptance test of every iteration the
\* optimizer goes on to publish the candidate (lines 82-84) exactly when the
\* candidate's score is strictly lower than the shared score, and goes straight
\* to line 86 otherwise (ties included); inside the per-image loop the shared
\* specimen is assigned at line 83 only, and there it becomes the candidate.
C1_NoRegressionAcceptance ==
    [][ /\ (pc = "L77" /\ pc' # "L77") =>
              /\ pc' = (IF new_score < score THEN "L82" ELSE "L86")
              /\ specimen' = specimen
        /\ (pc \in ImageLoopPCs /\ specimen' # specimen) => pc = "L83"
        /\ (pc = "L83" /\ pc' # "L83") => specimen' = new_specimen
        /\ (pc' = "L83" /\ pc # "L83") => pc = "L82"
        /\ (pc' = "L82" /\ pc # "L82") => pc = "L77"
      ]_vars

\* C1 witness: a candidate that ties with the shared score and is a different
\* drawing has been rejected, and the shared specimen is still the old one.
C1_TieRejected ==
    /\ pc = "L86"
    /\ new_score = score
    /\ new_specimen # specimen
    /\ n_iterations_with_same_score > 0

\* C2: Monotonic improvement.  No step taken inside one image session (after the
\* reset of line 133, until the per-image loop is left) increases the shared
\* score.
C2_MonotonicImprovement ==
    [][ (pc \in SessionPCs /\ pc' \in SessionPCs) => score' <= score ]_vars

\* C2 witness: a candidate worse than the shared score has come back from
\* iterate_image and the shared score has kept its lower value.
C2_WorseCandidateRejected ==
    /\ pc = "L86"
    /\ new_score > score
    /\ score < SENTINEL_SCORE

\* C3: Stagnation counter correctness.  The acceptance test of every iteration
\* adds exactly one to n_iterations_with_same_score when the candidate is
\* rejected and sets it to zero when the candidate is accepted, whatever the
\* flags and the elapsed time are, and no other step of the loop changes it.
C3_StagnationCounter ==
    [][ /\ (pc = "L77" /\ pc' # "L77") =>
              n_iterations_with_same_score' =
                  (IF new_score >= score THEN n_iterations_with_same_score + 1 ELSE 0)
        /\ (pc # "L77") =>
              n_iterations_with_same_score' = n_iterations_with_same_score
      ]_vars

\* C3 witness: two rejections in a row have been counted while the image is
\* locked, the budget is used up and a stop is pending.
C3_TwoRejectionsCounted ==
    /\ pc = "L86"
    /\ n_iterations_with_same_score = 2
    /\ lock_image
    /\ flag_stop
    /\ elapsed >= BudgetMicros

\* C4: Lock overrides timeout.  When the per-image loop is left at its condition
\* while lock_image is true, flag_stop or flag_next_image is true; and the loop
\* is left through the convergence break of line 97 only with lock_image false.
C4_LockOverridesTimeout ==
    [][ /\ (pc = "L59" /\ pc' = "L163" /\ lock_image) => (flag_stop \/ flag_next_image)
        /\ (pc = "L96" /\ pc' = "L163") => ~lock_image
        /\ (pc' = "L163" /\ pc # "L163") => pc \in {"L59", "L96"}
      ]_vars

\* C4 witness: with the image locked, an iteration starts although the
\* per-image budget has elapsed.
C4_LockedPastBudget ==
    /\ pc = "L64"
    /\ lock_image
    /\ elapsed >= BudgetMicros

\* C5: Locked wait ends on stop/skip.  The wait loop, evaluating its condition
\* with lock_image true and flag_stop or flag_next_image true, does not go to
\* sleep again.
C5_LockedWaitEndsOnStopOrSkip ==
    [][ (pc = "L165" /\ lock_image /\ (flag_stop \/ flag_next_image)) => pc' # "L170" ]_vars

\* C6: Unlocked wait.  Whenever the wait loop evaluates its condition with
\* lock_image false, it sleeps one more poll interval exactly when the
\* inter-image delay has not elapsed and neither flag_stop nor flag_next_image
\* is true, and it returns otherwise; every sleep lasts one poll interval.
C6_UnlockedWait ==
    [][ /\ (pc = "L165" /\ ~lock_image /\ pc' # "L165") =>
              pc' = (IF waited < DelayMicros /\ ~flag_stop /\ ~flag_next_image
                     THEN "L170" ELSE "L104")
        /\ (pc = "L170" /\ pc' # "L170") => waited' = waited + POLL_SECONDS * MICROS
      ]_vars

\* C6 witness: the unlocked wait has slept the whole inter-image delay with no
\* flag set and is at its condition, which now lets it return.
C6_DelayElapsed ==
    /\ pc = "L165"
    /\ waited = DelayMicros
    /\ ~lock_image
    /\ ~flag_stop
    /\ ~flag_next_image

\* C7: Stop with skip.  While flag_stop and flag_next_image are both true,
\* whatever lock_image is, the optimizer starts no iteration, starts no new
\* image and does not sleep in the wait stage.
C7_StopWithSkip ==
    [][ (flag_stop /\ flag_next_image) =>
            /\ (pc = "L59" => pc' # "L64")
            /\ (pc = "L53" => pc' # "L144")
            /\ (pc = "L165" => pc' # "L170")
      ]_vars

\* C8: Selector non-repetition.  With at least two files in the folder, the
\* path line 123 stores differs from the path it replaces; with files A, B and
\* previous path A it is B.
C8_SelectorNonRepetition ==
    [][ (pc = "L145" /\ pc' = "L124" /\ Cardinality(image_folder) >= 2) =>
            /\ img_path' # img_path
            /\ img_path' \in image_folder
            /\ (image_folder = {"A", "B"} /\ img_path = "A") => img_path' = "B"
      ]_vars

\* C8 witness: in the folder A, B the image after A has been selected.
C8_SwitchedFromAToB ==
    /\ image_folder = {"A", "B"}
    /\ pc = "L124"
    /\ target_image = "A"
    /\ img_path = "B"

\* C9 as claimed: Score/specimen agreement.  In every state of the per-image
\* loop, also before the first accepted candidate of the image, the shared score
\* is the fitness of the shared specimen against the shared target image.
C9_ScoreAlwaysFitness ==
    pc \in ImageLoopPCs => score = Fit(specimen.id, target_image)

\* C9 as amended: once a target image is loaded, the shared score is either the
\* sentinel of line 133 or the fitness of the shared specimen against the
\* shared target image, except between lines 82 and 83 and between the load of
\* the next target (line 129) and the reset of line 133.
C9_ScoreIsSentinelOrFitness ==
    (target_image # EmptyImage /\ pc \notin {"L83", "L130", "L133"}) =>
        (score = SENTINEL_SCORE \/ score = Fit(specimen.id, target_image))

\* C9 witness: a candidate that differs from the blank drawing has been accepted
\* and published, and the score is its fitness, not the sentinel.
C9_AcceptedAndPublished ==
    /\ pc = "L86"
    /\ n_iterations_with_same_score = 0
    /\ score # SENTINEL_SCORE
    /\ score = Fit(specimen.id, target_image)
    /\ specimen = new_specimen
    /\ specimen # InitialSpecimen

\* C10: Publish-on-improvement under interleaving.  At every point of the
\* per-image loop at which the renderer may read them, the shared score, unless
\* it is the sentinel, is the score computed for the shared specimen.
C10_SelfConsistentPair ==
    (pc \in ImageLoopPCs /\ score # SENTINEL_SCORE) =>
        score = Fit(specimen.id, target_image)

\* The positions from the end of one image session to the start of the next:
\* the wait stage, line 104, the outer loop condition and
\* _initialize_for_next_image
SwitchPCs == {"L163", "L165", "L170", "L104", "L53", "L144", "L145", "L146",
              "L124", "L128", "L130", "L133", "L135"}

\* C11: Placeholder never available.  Whenever image_available is true the
\* shared specimen is not a placeholder; every position of the per-image loop
\* is reached with a real target image and a specimen that is not a
\* placeholder; and image_available, false at startup, becomes true only at
\* line 84, on an accepted candidate.
C11_PlaceholderNeverAvailable ==
    [][ /\ image_available => ~specimen.is_placeholder
        /\ pc \in ImageLoopPCs => (~specimen.is_placeholder /\ target_image # EmptyImage)
        /\ (pc \in {"L77", "L82", "L83"}) => ~new_specimen.is_placeholder
        /\ (image_available' /\ ~image_available) => (pc = "L84" /\ pc' = "L86")
        /\ (specimen.is_placeholder /\ ~specimen'.is_placeholder) => pc = "L130"
        /\ ~specimen.is_placeholder => ~specimen'.is_placeholder
      ]_vars

\* C11 witness: the first candidate of the run has been accepted and published
\* on a real target, and image_available is still false just before line 84.
C11_FirstAcceptanceBeforeAvailable ==
    /\ pc = "L84"
    /\ ~image_available
    /\ ~specimen.is_placeholder
    /\ specimen = new_specimen
    /\ target_image # EmptyImage

\* C12 as claimed: imageAvailable is per image.  In every image session
\* image_available is true only if a candidate has been accepted for the
\* current target image, that is, only if the score is no longer the sentinel
\* of line 133.
C12_AvailablePerImage ==
    (pc \in ImageLoopPCs /\ image_available) => score # SENTINEL_SCORE

\* C12 as amended: image_available is set at line 84 on every accepted
\* candidate and is never cleared: once true it stays true through every later
\* image switch.
C12_AvailableOncePerRun ==
    [][ /\ image_available => image_available'
        /\ (pc = "L84" /\ pc' # "L84") => image_available'
        /\ (pc \in SwitchPCs) => image_available' = image_available
      ]_vars

\* C12 witness: a later image session has started, no candidate has been
\* accepted for its target yet, and image_available is true from the image
\* before.
C12_AvailableBeforeAcceptance ==
    /\ pc = "L64"
    /\ generation_index = 0
    /\ score = SENTINEL_SCORE
    /\ image_available
    /\ target_image = img_path

\* C13: Exit only on stop.  The outer loop is left (line 106 is reached) only
\* from its condition at line 53 with flag_stop true; with flag_stop false the
\* condition always starts the next image; and run_continuous_finch returns
\* only from thread.join(), with the rendering thread ended.
C13_ExitOnlyOnStop ==
    [][ /\ (pc' = "L106" /\ pc # "L106") => (pc = "L53" /\ flag_stop)
        /\ (pc = "L53" /\ pc' # "L53" /\ ~flag_stop) => pc' = "L144"
        /\ (pc' = "done" /\ pc # "done") => (pc = "L106" /\ thread = "exited")
        /\ pc = "done" => pc' = "done"
      ]_vars

\* C13 witness: the function has returned after a stop, with the image locked
\* and a drawing available.
C13_ReturnedAfterStop ==
    /\ pc = "done"
    /\ flag_stop
    /\ lock_image
    /\ image_available
    /\ thread = "exited"

\* C14: Single-file selector does not terminate.  In a one-file folder whose
\* file is the previous path, the retry loop of lines 145-146 is never left:
\* every choice is the previous path again.
C14_SingleFileNeverReturns ==
    [][ (Cardinality(image_folder) = 1 /\ img_path \in image_folder
            /\ pc \in {"L145", "L146"}) =>
            /\ pc' \in {"L145", "L146"}
            /\ sel_img_path' = img_path
            /\ img_path' = img_path
      ]_vars

\* C14 witness: in a one-file folder the first image has been selected and
\* drawn, and the second selection is choosing again inside the retry loop.
C14_SecondSelectionRetrying ==
    /\ image_folder = {"A"}
    /\ img_path = "A"
    /\ target_image = "A"
    /\ image_available
    /\ pc = "L146"
    /\ sel_img_path = "A"

\* C15 as claimed: Empty folder is a fatal error.  With no file in the folder
\* the selection does not return a path: once it has left
\* _get_random_image_path the optimizer is in the NoCandidateImages error (or
\* has never entered it because of a stop), and the shared fields are untouched.
C15_EmptyFolderNoCandidateImages ==
    (image_folder = {} /\ pc \notin {"L53", "L144", "L145", "L146", "L106", "done"}) =>
        pc = "NoCandidateImages"

\* C15 as amended: with no file in the folder, random.choice at line 146 raises
\* IndexError; the selection returns no path, no iteration of the per-image
\* loop is reached and img_path, target_image, specimen and score keep their
\* initial values.
C15_EmptyFolderIndexError ==
    [][ image_folder = {} =>
            /\ pc' \in {"L53", "L144", "L145", "L146", "L106", "done", "IndexError"}
            /\ (pc = "L146" /\ pc' # "L146") => pc' = "IndexError"
            /\ pc = "IndexError" => pc' = "IndexError"
            /\ UNCHANGED <<img_path, target_image, specimen, score>>
            /\ img_path = "" /\ target_image = EmptyImage /\ specimen = Placeholder
      ]_vars

\* C15 witness: the selection has failed on an empty folder.
C15_SelectionFailed ==
    /\ image_folder = {}
    /\ pc = "IndexError"
    /\ generation_index = 0
    /\ specimen = Placeholder

\* C16: Cooperative cancellation at iteration boundaries.  With flag_stop or
\* flag_next_image true, the loop condition starts no iteration, and it is the
\* only way into an iteration; inside an iteration the two flags change
\* nothing: the call of iterate_image made after the condition still happens,
\* a better candidate is still published, and the iteration runs on to its end
\* (line 96 or the frame pacing).
C16_CooperativeCancellation ==
    [][ /\ (pc = "L59" /\ (flag_stop \/ flag_next_image) /\ pc' # "L59") => pc' = "L163"
        /\ (pc' = "L64" /\ pc # "L64") => (pc = "L59" /\ ~flag_stop /\ ~flag_next_image)
        /\ (pc = "L64" /\ pc' # "L64") => pc' = "L77"
        /\ (pc = "L77" /\ pc' # "L77") =>
              pc' = (IF new_score < score THEN "L82" ELSE "L86")
        /\ (pc = "L82" /\ pc' # "L82") => (pc' = "L83" /\ score' = new_score)
        /\ (pc = "L83" /\ pc' # "L83") => (pc' = "L84" /\ specimen' = new_specimen)
        /\ (pc = "L84" /\ pc' # "L84") => pc' = "L86"
        /\ (pc = "L86" /\ pc' # "L86") => pc' = "L96"
        /\ (pc = "L96" /\ pc' # "L96") => pc' \in {"L99", "L163"}
        /\ (pc = "L99" /\ pc' # "L99") => pc' = "L59"
        /\ (pc \in ImageLoopPCs /\ pc' \in ImageLoopPCs /\ pc # "L82") => score' = score
        /\ (pc \in ImageLoopPCs /\ pc' \in ImageLoopPCs /\ pc # "L83") => specimen' = specimen
      ]_vars

\* C16 witness: both flags were set while an iteration was in progress, and
\* the iteration is publishing its accepted candidate all the same.
C16_AcceptanceAfterFlags ==
    /\ pc = "L83"
    /\ flag_stop
    /\ flag_next_image
    /\ score = new_score
    /\ specimen # new_specimen

\* C17: Time budget is a forced escape.  With lock_image false the loop
\* condition starts no iteration once the per-image budget has elapsed, and
\* every iteration that returns to the loop condition has added at least the
\* minimum step time to the elapsed time; so with lock_image false and no flag
\* set a session is left after finitely many iterations.
C17_BudgetForcesEscape ==
    [][ /\ (pc = "L59" /\ ~lock_image /\ elapsed >= BudgetMicros /\ pc' # "L59") =>
              pc' = "L163"
        /\ (pc = "L99" /\ pc' = "L59") =>
              elapsed' >= (elapsed - frame_time) + MINIMUM_STEP_TIME_MICROSECONDS
        /\ (pc \in ImageLoopPCs /\ pc' \in ImageLoopPCs) => elapsed' >= elapsed
      ]_vars

\* C17 witness: the budget has elapsed, the image is not locked, no flag is
\* set, and the loop condition is about to end the session.
C17_BudgetElapsedUnlocked ==
    /\ pc = "L59"
    /\ elapsed >= BudgetMicros
    /\ ~lock_image
    /\ ~flag_stop
    /\ ~flag_next_image

\* C18: Latency diagnostic.  After every iteration update_time_microseconds is
\* the whole time, in microseconds, since the previous update (whole seconds
\* included; seconds are counted up to MaxDeltaSeconds).
C18_LatencyIsFullDelta ==
    [][ (pc = "L86" /\ pc' = "L96") =>
            update_time_microseconds' = since_update_s * MICROS + since_update_us
      ]_vars

\* C19 as claimed: Single designated writer.  No step of the optimizer changes
\* flag_stop, flag_next_image or lock_image.
C19_OptimizerWritesNoFlag ==
    [][ pc' # pc => UNCHANGED <<flag_stop, flag_next_image, lock_image>> ]_vars

\* C19 as amended: the optimizer never changes flag_stop or lock_image, and it
\* changes flag_next_image at line 104 only, from true to false; the fields
\* img_path, brush, target_image, specimen, score, image_available and
\* update_time_microseconds change in steps of the optimizer only.
C19_OptimizerOnlyClearsNextImage ==
    [][ /\ pc' # pc =>
              /\ flag_stop' = flag_stop
              /\ lock_image' = lock_image
              /\ flag_next_image' # flag_next_image =>
                     (pc = "L104" /\ flag_next_image /\ ~flag_next_image')
        /\ (pc = "L104" /\ pc' # "L104") => ~flag_next_image'
        /\ pc' = pc => UNCHANGED shared_vars
      ]_vars

\* C19 witness: a skip request is pending at line 104, which is about to
\* clear it.
C19_ClearingSkipRequest ==
    /\ pc = "L104"
    /\ flag_next_image
    /\ ~flag_stop
    /\ image_available

\* C20: An image switch leaves the stagnation counter unchanged.  No step of
\* the wait stage, of line 104, of the outer loop condition or of
\* _initialize_for_next_image changes n_iterations_with_same_score, and the
\* counter goes back to zero only at the acceptance test, on an accepted
\* candidate.
C20_CounterSurvivesSwitch ==
    [][ /\ pc \in SwitchPCs =>
              n_iterations_with_same_score' = n_iterations_with_same_score
        /\ (n_iterations_with_same_score # 0 /\ n_iterations_with_same_score' = 0) =>
              (pc = "L77" /\ new_score < score)
      ]_vars

\* C20 witness: the first iteration of a new image is at its acceptance test
\* and the counter still holds the two rejections of the previous image.
C20_CounterCarriedOver ==
    /\ pc = "L77"
    /\ generation_index = 1
    /\ n_iterations_with_same_score = 2
    /\ score = SENTINEL_SCORE

====
